---- MODULE Spec2Model ----
(***************************************************************************)
(* A model of the file-date reconciliation tool (the variant with EXIF    *)
(* and ffmpeg metadata): FileStatsUtil.rangeFromPath, getDateFromExif,    *)
(* getDateByFfmpeg, check, dump, fix and main's loop over the targets.    *)
(*                                                                         *)
(* A JavaScript Date is a record [k, day, ms]: k = "date" for a valid     *)
(* instant whose getTime() is day * MsPerDay + ms (day counted from       *)
(* 1970-01-01 UTC, 0 <= ms < MsPerDay), k = "nan" for an Invalid Date,    *)
(* k = "undef" for undefined. The split keeps millisecond precision       *)
(* within 32-bit integers.                                                 *)
(***************************************************************************)
EXTENDS Integers, Sequences, FiniteSets, TLC

VARIABLES
  args,          \* Args: [modeIndex, isFix, ignoreDir]
  targets,       \* Targets.get(args.target): the enumerated entries, in order
  disk,          \* on-disk timestamps of each entry: [ctime, mtime, btime, atime]
  setsBtime,     \* whether the platform lets utimes() set the creation time
  clock,         \* the system clock
  run,           \* number of the current invocation of the program
  pc,            \* main's position: "loop", "await", "done", "crashed"
  i,             \* main's for-of index into targets
  stage,         \* each entry's pipeline position
  fileInfo,      \* each entry's FileStat (check's r)
  result,        \* each entry's return value of fix / dump
  counters,      \* [totalFiles, fixedFiles, fixableFiles, noMetaFiles]
  out,           \* console output, in order
  writes         \* each entry's number of timestamp writes made in this run

vars == <<args, targets, disk, setsBtime, clock, run, pc, i, stage, fileInfo,
          result, counters, out, writes>>

----------------------------------------------------------------------------
(* Bounds of the model *)

MaxFiles == 2
MaxRuns == 2

----------------------------------------------------------------------------
(* Dates *)

MsPerDay == 24 * 3600 * 1000

Undefined == [k |-> "undef", day |-> 0, ms |-> 0]
InvalidDate == [k |-> "nan", day |-> 0, ms |-> 0]
MkDate(d, m) == [k |-> "date", day |-> d, ms |-> m]
Epoch0 == MkDate(0, 0)

IsDate(a) == a.k = "date"

\* a.getTime() + delta, for |delta| < MsPerDay
AddMs(a, delta) ==
  LET s == a.ms + delta
  IN  IF s < 0 THEN MkDate(a.day - 1, s + MsPerDay)
      ELSE IF s >= MsPerDay THEN MkDate(a.day + 1, s - MsPerDay)
      ELSE MkDate(a.day, s)

\* a < b on Dates (the comparison of their time values; false with NaN)
DateLT(a, b) ==
  /\ IsDate(a) /\ IsDate(b)
  /\ \/ a.day < b.day
     \/ a.day = b.day /\ a.ms < b.ms

\* a >= b on Dates
DateGE(a, b) ==
  /\ IsDate(a) /\ IsDate(b)
  /\ \/ a.day > b.day
     \/ a.day = b.day /\ a.ms >= b.ms

Abs(x) == IF x < 0 THEN -x ELSE x

\* Math.abs(a.getTime() - b.getTime()) > delta, for 0 <= delta < MsPerDay
AbsDiffGT(a, b, delta) ==
  LET dd == a.day - b.day
  IN  IF dd > 1 \/ dd < -1 THEN TRUE
      ELSE Abs(dd * MsPerDay + a.ms - b.ms) > delta

\* days from 1970-01-01 to the civil date y-m-d (proleptic Gregorian), 0 <= y
DaysFromCivil(y, m, d) ==
  LET yy  == y + 400 - (IF m <= 2 THEN 1 ELSE 0)
      era == yy \div 400
      yoe == yy - era * 400
      mp  == IF m > 2 THEN m - 3 ELSE m + 9
      doy == (153 * mp + 2) \div 5 + d - 1
      doe == yoe * 365 + yoe \div 4 - yoe \div 100 + doy
  IN  era * 146097 + doe - 719468 - 146097

\* new Date(`${yyyy}-${mm}-01T00:00:00+0900`): yyyy a four-digit string (as its
\* number 0..9999), mm a two-digit string (as its number 0..99)
DateJst(yyyy, mm) ==
  IF mm < 1 \/ mm > 12 THEN InvalidDate
  ELSE MkDate(DaysFromCivil(yyyy, mm, 1) - 1, 15 * 3600 * 1000)

----------------------------------------------------------------------------
(* Paths.  A path is the sequence of its "/"-preceded segments, each       *)
(* classified by what the two path patterns read off it:                   *)
(*   "year"   exactly four digits                (y)                       *)
(*   "ym"     starts (Movies-)?YYYY-MM           (pre, y, m)               *)
(*   "ylabel" starts YYYY- then a non-digit      (y)                       *)
(*   "other"  anything else                                                *)

Seg(t, pre, y, m) == [t |-> t, pre |-> pre, y |-> y, m |-> m]
SegYear(y) == Seg("year", "", y, 0)
SegYm(pre, y, m) == Seg("ym", pre, y, m)
SegLabel(y) == Seg("ylabel", "", y, 0)
SegOther == Seg("other", "", 0, 0)

\* monthMatcher = /\/(\d{4})\/(Movies-)?(\d{4})-(\d{2})/ matches at segment p
MonthMatchAt(path, p) ==
  /\ p + 1 <= Len(path)
  /\ path[p].t = "year"
  /\ path[p + 1].t = "ym"

\* yearMatcher = /\/(\d{4})\/(\d{4})-[^\d]/ matches at segment p
YearMatchAt(path, p) ==
  /\ p + 1 <= Len(path)
  /\ path[p].t = "year"
  /\ path[p + 1].t = "ylabel"

Min(S) == CHOOSE x \in S : \A z \in S : x <= z

\* RegExp.exec: the leftmost match, 0 for null
MonthMatcherExec(path) ==
  LET S == {p \in 1..Len(path) : MonthMatchAt(path, p)}
  IN  IF S = {} THEN 0 ELSE Min(S)

YearMatcherExec(path) ==
  LET S == {p \in 1..Len(path) : YearMatchAt(path, p)}
  IN  IF S = {} THEN 0 ELSE Min(S)

NoRange == [ok |-> FALSE, begin |-> Undefined, end |-> Undefined, err |-> "none"]
MkRange(b, e, err) == [ok |-> TRUE, begin |-> b, end |-> e, err |-> err]

\* `000${year + 1}`.substr(-4), as its number
EndYear(year) == (year + 1) % 10000

\* RangeFromMonth without its December branch: the end's month is month + 1
RangeFromMonth_noDecember(path, p) ==
  LET y1    == path[p].y
      y3    == path[p + 1].y
      month == path[p + 1].m
  IN  IF y1 # y3 THEN [NoRange EXCEPT !.err = "year_mismatch"]
      ELSE IF y1 <= 1950 \/ y1 > 2030 \/ month < 1 \/ month > 12
        THEN [NoRange EXCEPT !.err = "invalid_year_month"]
      ELSE MkRange(DateJst(y1, month), DateJst(y1, month + 1), "none")

\* the month branch of rangeFromPath, mm the match at segment p
RangeFromMonth(path, p) ==
  LET y1    == path[p].y
      y3    == path[p + 1].y
      month == path[p + 1].m
  IN  IF y1 # y3 THEN [NoRange EXCEPT !.err = "year_mismatch"]
      ELSE IF y1 <= 1950 \/ y1 > 2030 \/ month < 1 \/ month > 12
        THEN [NoRange EXCEPT !.err = "invalid_year_month"]
      ELSE IF month = 12
        THEN MkRange(DateJst(y1, month), DateJst(EndYear(y1), 1), "none")
      ELSE MkRange(DateJst(y1, month), DateJst(y1, month + 1), "none")

\* the year branch of rangeFromPath, ym the match at segment p
RangeFromYear(path, p) ==
  LET y1 == path[p].y
      y2 == path[p + 1].y
  IN  MkRange(DateJst(y1, 1), DateJst(EndYear(y1), 1),
              IF y1 # y2 THEN "year_mismatch" ELSE "none")

\* rangeFromPath: [ok, begin, end] is the returned pair (ok = FALSE for null),
\* err the console.error line it writes
rangeFromPath(path) ==
  LET mm == MonthMatcherExec(path)
      ym == YearMatcherExec(path)
  IN  IF mm # 0 THEN RangeFromMonth(path, mm)
      ELSE IF ym # 0 THEN RangeFromYear(path, ym)
      ELSE NoRange

----------------------------------------------------------------------------
(* Metadata.  A date string is a record [k, day, ms]:                      *)
(*   "absent"    undefined or ""                                           *)
(*   "nocolon"   non-empty, without any ":"                                *)
(*   "badlayout" holds a ":" but not at both positions 4 and 7             *)
(*   "ok"        spells the date and time [day, ms] in its layout          *)
(*   "garbage"   has the layout's separators but spells no date            *)

Str(k, d) == [k |-> k, day |-> d.day, ms |-> d.ms]
StrAbsent == Str("absent", Epoch0)
StrNoColon == Str("nocolon", Epoch0)
StrBadLayout == Str("badlayout", Epoch0)
StrGarbage == Str("garbage", Epoch0)

\* offset of the host's time zone, which new Date("YYYY/MM/DD hh:mm:ss") reads
\* its argument in
LocalOffsetMs == 9 * 3600 * 1000

\* the EXIF string "YYYY:MM:DD hh:mm:ss" that spells the instant t in local time
ExifStrOf(t) == Str("ok", AddMs(t, LocalOffsetMs))

\* the ffmpeg creation_time text (ISO 8601, UTC) that spells the instant t
IsoStrOf(t) == Str("ok", t)

Meta(date, err) == [date |-> date, err |-> err]

\* lines 146-160: the chosen field to a Date
ExifParse(s) ==
  IF s.k = "absent" THEN Meta(Undefined, "none")
  ELSE IF s.k = "ok"
    THEN Meta(AddMs(MkDate(s.day, s.ms), -LocalOffsetMs), "none")
  ELSE IF s.k = "garbage" THEN Meta(InvalidDate, "none")
  ELSE Meta(Undefined, "invalid_date_format")

\* lines 142-145: CreateDate, else DateTimeOriginal
ExifField(exif) ==
  IF exif.CreateDate.k = "absent" \/ exif.CreateDate.k = "nocolon"
    THEN exif.DateTimeOriginal
    ELSE exif.CreateDate

\* getDateFromExif: the Date the promise resolves to, and the line logged
getDateFromExif(exif) ==
  IF exif.error = "throws" THEN Meta(Undefined, "exception")
  ELSE IF exif.error = "no_exif" THEN Meta(Undefined, "none")
  ELSE IF exif.error = "other" THEN Meta(Undefined, "exif_error")
  ELSE ExifParse(ExifField(exif))

\* getDateByFfmpeg: ffmpegMatcher on stderr, then new Date(m[1])
getDateByFfmpeg(ff) ==
  IF ff.k = "absent" THEN Meta(Undefined, "none")
  ELSE IF ff.k = "ok" THEN Meta(MkDate(ff.day, ff.ms), "none")
  ELSE Meta(InvalidDate, "none")

\* extname.toLowerCase()
ToLowerCase(ext) ==
  CASE ext = ".JPG" -> ".jpg"
    [] ext = ".MOV" -> ".mov"
    [] OTHER -> ext

IsImageExt(ext) == ToLowerCase(ext) \in {".jpg", ".jpeg"}
IsVideoExt(ext) == ToLowerCase(ext) \in {".mp4", ".mov", ".mts", ".m2ts", ".avi"}

----------------------------------------------------------------------------
(* check *)

DELTA_MAX == 10 * 1000

\* Normalize without the test for zero
Normalize_nanOnly(meta_time) ==
  IF IsDate(meta_time) THEN meta_time ELSE Undefined

\* lines 210-215: a zero or NaN time value becomes undefined
Normalize(meta_time) ==
  IF IsDate(meta_time) /\ meta_time # Epoch0 THEN meta_time ELSE Undefined

\* ValidDir that forgets the capture time: a range is enough
ValidDir_rangeOnly(ignoreDir, range, meta_time) ==
  \/ ignoreDir
  \/ range.ok

\* ValidDir whose end is inclusive: meta_time <= range[1]
ValidDir_endInclusive(ignoreDir, range, meta_time) ==
  \/ ignoreDir
  \/ /\ range.ok
     /\ meta_time # Undefined
     /\ DateGE(meta_time, range.begin)
     /\ DateGE(range.end, meta_time)

\* ValidDir that lets a file without range pass
ValidDir_noRangeOk(ignoreDir, range, meta_time) ==
  \/ ignoreDir
  \/ ~range.ok
  \/ /\ meta_time # Undefined
     /\ DateGE(meta_time, range.begin)
     /\ DateLT(meta_time, range.end)

\* lines 225-230
ValidDir(ignoreDir, range, meta_time) ==
  \/ ignoreDir
  \/ /\ range.ok
     /\ meta_time # Undefined
     /\ DateGE(meta_time, range.begin)
     /\ DateLT(meta_time, range.end)

\* Check0 whose end is inclusive: meta_time > range[1]
Check0_endInclusive(ignoreDir, range, meta_time) ==
  /\ ~ignoreDir
  /\ \/ ~range.ok
     \/ DateLT(meta_time, range.begin)
     \/ DateLT(range.end, meta_time)

\* Check0 whose begin is exclusive: meta_time <= range[0]
Check0_beginExclusive(ignoreDir, range, meta_time) ==
  /\ ~ignoreDir
  /\ \/ ~range.ok
     \/ ~DateLT(range.begin, meta_time)
     \/ DateGE(meta_time, range.end)

\* Check0 that looks at the range in the nodir modes too
Check0_rangeInNodir(ignoreDir, range, meta_time) ==
  \/ ~range.ok
  \/ DateLT(meta_time, range.begin)
  \/ DateGE(meta_time, range.end)

\* lines 237-238
Check0(ignoreDir, range, meta_time) ==
  /\ ~ignoreDir
  /\ \/ ~range.ok
     \/ DateLT(meta_time, range.begin)
     \/ DateGE(meta_time, range.end)

\* CheckDelta with >= for >
CheckDelta_notStrict(meta_time, t) == AbsDiffGT(meta_time, t, DELTA_MAX - 1)

\* lines 239-242: check3, check1, check2 on ctime, mtime, birthtime
CheckDelta(meta_time, t) == AbsDiffGT(meta_time, t, DELTA_MAX)

\* lines 232-247
Flag(ignoreDir, range, meta_time, st) ==
  IF meta_time = Undefined THEN "no_meta"
  ELSE IF \/ Check0(ignoreDir, range, meta_time)
          \/ CheckDelta(meta_time, st.mtime)
          \/ CheckDelta(meta_time, st.btime)
          \/ CheckDelta(meta_time, st.ctime)
    THEN "fixable"
  ELSE "normal"

NoInfo ==
  [begin |-> Undefined, end |-> Undefined, hasRange |-> FALSE,
   meta_time |-> Undefined, ctime |-> Undefined, mtime |-> Undefined,
   btime |-> Undefined, flag |-> "none", validDir |-> FALSE]

\* lines 188-191: the locals check holds while the extractor runs
Locals(st, range) ==
  [NoInfo EXCEPT !.begin = range.begin, !.end = range.end,
                 !.hasRange = range.ok, !.ctime = st.ctime,
                 !.mtime = st.mtime, !.btime = st.btime, !.flag = "pending"]

RangeOf(r) == [ok |-> r.hasRange, begin |-> r.begin, end |-> r.end, err |-> "none"]

\* lines 210-248: check's FileStat r, from its locals and the extracted Date
check(loc, extracted, ignoreDir) ==
  LET meta_time == Normalize(extracted)
  IN  [loc EXCEPT
        !.meta_time = meta_time,
        !.validDir = ValidDir(ignoreDir, RangeOf(loc), meta_time),
        !.flag = Flag(ignoreDir, RangeOf(loc), meta_time, loc)]

\* FixApplies without the validDir test
FixApplies_noValidDir(r) ==
  /\ r.flag = "fixable"
  /\ r.meta_time # Undefined

\* lines 289-293 negated: fix goes on to write
FixApplies(r) ==
  /\ r.flag = "fixable"
  /\ r.validDir
  /\ r.meta_time # Undefined

----------------------------------------------------------------------------
(* The inputs: the entries the file lister returns, with their timestamps  *)

Entry(kind, statFails, base, ext, path, exif, ffmpeg, utimesFails) ==
  [kind |-> kind, statFails |-> statFails, base |-> base, ext |-> ext,
   path |-> path, exif |-> exif, ffmpeg |-> ffmpeg, utimesFails |-> utimesFails]

Exif(error, cd, dto) == [error |-> error, CreateDate |-> cd, DateTimeOriginal |-> dto]

Stamps(c, m, b, a) == [ctime |-> c, mtime |-> m, btime |-> b, atime |-> a]

File(e, st) == [e |-> e, st |-> st]

\* 2022-05-15 10:00:00 +09:00, a capture time
T0 == MkDate(DaysFromCivil(2022, 5, 15), 3600 * 1000)
\* 2022-05-01 00:00:00 +09:00, where the April range ends and the May range begins
B == DateJst(2022, 5)
Anchors == {T0, B, AddMs(B, -1000)}

Clock0 == AddMs(T0, DELTA_MAX)
Today == DateJst(2026, 11)
ClockVals == {Clock0, Today}

\* distances of a timestamp from the capture time: at, within and beyond the
\* tolerance, on either side
OffsetsC == {-(DELTA_MAX + 1), 0, DELTA_MAX}
OffsetsM == {-DELTA_MAX, 0, DELTA_MAX + 1}

PathNone == <<SegOther, SegOther>>
PathMay == <<SegOther, SegYear(2022), SegYm("", 2022, 5), SegOther>>
PathApril == <<SegYear(2022), SegYm("Movies-", 2022, 4), SegOther>>
PathYear == <<SegYear(2022), SegLabel(2022), SegOther>>
RichPaths == {PathNone, PathMay, PathApril, PathYear}

Jpg(path, exif) == Entry("file", FALSE, "media", ".jpg", path, exif, StrAbsent, FALSE)

\* one image whose timestamps lie around the instant a, with every combination
\* of range, capture time and timestamps
RichFilesAt(a) ==
  {File(Jpg(p, Exif("none", cd, StrAbsent)),
        Stamps(AddMs(a, oc), AddMs(a, om), AddMs(a, ob), AddMs(a, oc))) :
     p \in RichPaths, oc \in OffsetsC, om \in OffsetsM, ob \in OffsetsM,
     cd \in {ExifStrOf(a), StrAbsent, StrGarbage, ExifStrOf(Epoch0)}}

RichFiles == UNION {RichFilesAt(a) : a \in Anchors}

Even == Stamps(T0, T0, T0, T0)
Late == Stamps(T0, AddMs(T0, 120 * 1000), T0, T0)
ExifT0 == Exif("none", ExifStrOf(T0), StrAbsent)

\* the kinds of entry a listing holds
CoarseFiles ==
  { File(Jpg(PathMay, ExifT0), Even),
    File(Jpg(PathMay, ExifT0), Late),
    File(Jpg(PathApril, ExifT0), Late),
    File(Jpg(PathMay, Exif("throws", StrAbsent, StrAbsent)), Late),
    File(Entry("file", FALSE, "media", ".MOV", PathMay, ExifT0, IsoStrOf(T0), FALSE), Late),
    File(Entry("file", FALSE, "media", ".txt", PathMay, ExifT0, StrAbsent, FALSE), Late),
    File(Entry("dir", FALSE, "media", "", PathMay, ExifT0, StrAbsent, FALSE), Even),
    File(Entry("file", FALSE, "Picasa.ini", ".ini", PathMay, ExifT0, StrAbsent, FALSE), Late),
    File(Entry("file", TRUE, "media", ".jpg", PathMay, ExifT0, StrAbsent, FALSE), Late),
    File(Entry("file", FALSE, "media", ".jpg", PathMay, ExifT0, StrAbsent, TRUE), Late) }

\* the years and months the path patterns are tried on
PathYears == {0, 1950, 1951, 2023, 2030, 2031, 9999}
PathMonths == {0, 1, 7, 12, 13}
\* a year that differs from each of them
OtherYears == {2022}

\* the two segments a pattern may match: /y1/[Movies-]y2-mm or /y1/y2-label
PathCores ==
  {<<SegYear(y1), SegYm(pre, y2, m)>> :
     y1 \in PathYears, y2 \in PathYears \cup OtherYears, m \in PathMonths,
     pre \in {"", "Movies-"}}
  \cup {<<SegYear(y1), SegLabel(y2)>> : y1 \in PathYears, y2 \in PathYears \cup OtherYears}

\* what precedes them: nothing, a plain directory, or an earlier match
PathPrefixes ==
  { <<>>, <<SegOther>>,
    <<SegYear(2021), SegYm("", 2021, 3)>>,
    <<SegYear(2021), SegYm("", 2020, 3)>>,
    <<SegYear(2021), SegLabel(2021)>> }

\* one image under each such path
PathFiles ==
  {File(Jpg(pre \o core \o <<SegOther>>, ExifT0), Even) :
     pre \in PathPrefixes, core \in {c \in PathCores : c[1].y = c[2].y \/ c[2].y \in OtherYears}}

\* one image with each pairing of the two EXIF date fields
ExifFiles ==
  {File(Jpg(PathMay, Exif("none", cd, dto)), Late) :
     cd \in {StrAbsent, StrNoColon, StrBadLayout, StrGarbage, ExifStrOf(T0)},
     dto \in {StrAbsent, StrNoColon, StrBadLayout, ExifStrOf(T0), ExifStrOf(Epoch0)}}

\* one image on which the EXIF reader fails in each of its ways
ReaderFiles ==
  {File(Jpg(PathMay, Exif(err, StrAbsent, StrAbsent)), Late) :
     err \in {"no_exif", "other", "throws"}}

\* one video with each kind of creation_time in ffmpeg's output
VideoFiles ==
  {File(Entry("file", FALSE, "media", ext, PathMay, ExifT0, ff, FALSE), Late) :
     ext \in {".MOV", ".mp4"},
     ff \in {StrAbsent, StrGarbage, IsoStrOf(T0), IsoStrOf(Epoch0)}}

\* Args with isFix off by one: check-nodir counts as a fix mode
Args_fixFromNodir(modeIndex) ==
  [modeIndex |-> modeIndex, isFix |-> modeIndex >= 1,
   ignoreDir |-> modeIndex = 1 \/ modeIndex = 3]

\* Args: modeIndex of ["check", "check-nodir", "fix", "fix-nodir"]
Args(modeIndex) ==
  [modeIndex |-> modeIndex, isFix |-> modeIndex >= 2,
   ignoreDir |-> modeIndex = 1 \/ modeIndex = 3]

Banner == << [f |-> 0, msg |-> "Mode"], [f |-> 0, msg |-> "Checking"] >>
NoCounters == [totalFiles |-> 0, fixedFiles |-> 0, fixableFiles |-> 0, noMetaFiles |-> 0]

\* main, lines 309-315, on the listing fs
Start(fs) ==
  /\ targets = [k \in 1..Len(fs) |-> fs[k].e]
  /\ disk = [k \in 1..Len(fs) |-> fs[k].st]
  /\ args \in {Args(m) : m \in 0..3}
  /\ setsBtime \in BOOLEAN
  /\ clock = Clock0
  /\ run = 1
  /\ pc = "loop"
  /\ i = 1
  /\ stage = [k \in 1..Len(fs) |-> "idle"]
  /\ fileInfo = [k \in 1..Len(fs) |-> NoInfo]
  /\ result = [k \in 1..Len(fs) |-> "none"]
  /\ counters = NoCounters
  /\ out = Banner
  /\ writes = [k \in 1..Len(fs) |-> 0]

Init ==
  \/ \E f \in RichFiles \cup PathFiles \cup ExifFiles \cup ReaderFiles \cup VideoFiles :
        Start(<<f>>)
  \/ \E n \in 1..MaxFiles : \E fs \in [1..n -> CoarseFiles] : Start(fs)

----------------------------------------------------------------------------
(* main's loop, and the continuations of check, dump and fix *)

Log(o, k, msg) == IF msg = "none" THEN o ELSE Append(o, [f |-> k, msg |-> msg])

\* the times the clock may show from now on
Now == {t \in ClockVals : DateGE(t, clock)}

\* lines 320 / 344: fs.statSync throws, main's promise rejects
LoopStatThrows ==
  /\ pc = "loop" /\ i <= Len(targets)
  /\ targets[i].statFails
  /\ pc' = "crashed"
  /\ UNCHANGED <<args, targets, disk, setsBtime, clock, run, i, stage, fileInfo,
                 result, counters, out, writes>>

\* lines 321-326 / 345-350: not a regular file, or the sidecar file
LoopSkip ==
  /\ pc = "loop" /\ i <= Len(targets)
  /\ ~targets[i].statFails
  /\ targets[i].kind # "file" \/ targets[i].base = "Picasa.ini"
  /\ stage' = [stage EXCEPT ![i] = "skipped"]
  /\ i' = i + 1
  /\ UNCHANGED <<args, targets, disk, setsBtime, clock, run, pc, fileInfo,
                 result, counters, out, writes>>

\* LoopCall without the await: the loop goes on to the next entry at once
LoopCall_noAwait ==
  /\ pc = "loop" /\ i <= Len(targets)
  /\ ~targets[i].statFails
  /\ targets[i].kind = "file" /\ targets[i].base # "Picasa.ini"
  /\ LET e     == targets[i]
         range == rangeFromPath(e.path)
         loc   == Locals(disk[i], range)
         known == IsImageExt(e.ext) \/ IsVideoExt(e.ext)
     IN  /\ out' = Log(Log(out, i, range.err), i,
                       IF known THEN "none" ELSE "unknown_ext")
         /\ fileInfo' = [fileInfo EXCEPT
                           ![i] = IF known THEN loc
                                  ELSE check(loc, Undefined, args.ignoreDir)]
         /\ stage' = [stage EXCEPT ![i] = IF known THEN "extract" ELSE "checked"]
  /\ counters' = [counters EXCEPT !.totalFiles = @ + 1]
  /\ i' = i + 1
  /\ UNCHANGED <<args, targets, disk, setsBtime, clock, run, pc, result, writes>>

\* lines 327-328 / 351-352 and check's lines 188-209: the call of fix or dump,
\* up to the await of the extractor (or of check itself, for an unknown ext)
LoopCall ==
  /\ pc = "loop" /\ i <= Len(targets)
  /\ ~targets[i].statFails
  /\ targets[i].kind = "file" /\ targets[i].base # "Picasa.ini"
  /\ LET e     == targets[i]
         range == rangeFromPath(e.path)
         loc   == Locals(disk[i], range)
         known == IsImageExt(e.ext) \/ IsVideoExt(e.ext)
     IN  /\ out' = Log(Log(out, i, range.err), i,
                       IF known THEN "none" ELSE "unknown_ext")
         /\ fileInfo' = [fileInfo EXCEPT
                           ![i] = IF known THEN loc
                                  ELSE check(loc, Undefined, args.ignoreDir)]
         /\ stage' = [stage EXCEPT ![i] = IF known THEN "extract" ELSE "checked"]
  /\ counters' = [counters EXCEPT !.totalFiles = @ + 1]
  /\ pc' = "await"
  /\ UNCHANGED <<args, targets, disk, setsBtime, clock, run, i, result, writes>>

\* the extractor's callback resolves, and check runs on to its return
ExtractDone ==
  \E k \in DOMAIN targets :
    /\ stage[k] = "extract"
    /\ LET e  == targets[k]
           ex == IF IsImageExt(e.ext) THEN getDateFromExif(e.exif)
                 ELSE getDateByFfmpeg(e.ffmpeg)
       IN  /\ out' = Log(out, k, ex.err)
           /\ fileInfo' = [fileInfo EXCEPT
                             ![k] = check(fileInfo[k], ex.date, args.ignoreDir)]
    /\ stage' = [stage EXCEPT ![k] = "checked"]
    /\ UNCHANGED <<args, targets, disk, setsBtime, clock, run, pc, i, result,
                   counters, writes>>

\* dump after its await (lines 274-281), and main's lines 353-362
DumpReturn ==
  \E k \in DOMAIN targets :
    /\ ~args.isFix
    /\ stage[k] = "checked"
    /\ LET r == fileInfo[k]
       IN  /\ out' = Log(Log(out, k, IF r.meta_time = Undefined THEN "no_meta" ELSE "none"),
                         k, IF r.flag = "fixable" THEN "log" ELSE "none")
           /\ result' = [result EXCEPT ![k] = r.flag]
           /\ counters' =
                [counters EXCEPT
                   !.fixableFiles = IF r.flag = "fixable" THEN @ + 1 ELSE @,
                   !.noMetaFiles = IF r.flag = "no_meta" THEN @ + 1 ELSE @]
    /\ stage' = [stage EXCEPT ![k] = "done"]
    /\ pc' = "loop"
    /\ i' = i + 1
    /\ UNCHANGED <<args, targets, disk, setsBtime, clock, run, fileInfo, writes>>

\* fix after its await, lines 289-295: return false
FixReturnFalse ==
  \E k \in DOMAIN targets :
    /\ args.isFix
    /\ stage[k] = "checked"
    /\ ~FixApplies(fileInfo[k])
    /\ result' = [result EXCEPT ![k] = "false"]
    /\ stage' = [stage EXCEPT ![k] = "done"]
    /\ pc' = "loop"
    /\ i' = i + 1
    /\ UNCHANGED <<args, targets, disk, setsBtime, clock, run, fileInfo,
                   counters, out, writes>>

\* fix, lines 296-299: log, fs.utimesSync(atime, mtime), and the call of utimes;
\* the file system stamps the change time with the clock
FixWrite ==
  \E k \in DOMAIN targets : \E now \in Now :
    /\ args.isFix
    /\ stage[k] = "checked"
    /\ FixApplies(fileInfo[k])
    /\ ~targets[k].utimesFails
    /\ out' = Log(Log(out, k, "log"), k, "modified")
    /\ disk' = [disk EXCEPT ![k] = [@ EXCEPT !.atime = fileInfo[k].meta_time,
                                             !.mtime = fileInfo[k].meta_time,
                                             !.ctime = now]]
    /\ writes' = [writes EXCEPT ![k] = @ + 1]
    /\ clock' = now
    /\ stage' = [stage EXCEPT ![k] = "utimes"]
    /\ UNCHANGED <<args, targets, setsBtime, run, pc, i, fileInfo, result, counters>>

\* fix, line 298: fs.utimesSync throws; fix's and main's promises reject
FixThrows ==
  \E k \in DOMAIN targets :
    /\ args.isFix
    /\ stage[k] = "checked"
    /\ FixApplies(fileInfo[k])
    /\ targets[k].utimesFails
    /\ out' = Log(Log(out, k, "log"), k, "modified")
    /\ stage' = [stage EXCEPT ![k] = "failed"]
    /\ pc' = "crashed"
    /\ UNCHANGED <<args, targets, disk, setsBtime, clock, run, i, fileInfo,
                   result, counters, writes>>

\* fix, lines 299-304: utimes resolves (atime, mtime and, where the platform
\* can, btime are set), fix returns true; main's lines 329-331
UtimesDone ==
  \E k \in DOMAIN targets : \E now \in Now :
    /\ stage[k] = "utimes"
    /\ disk' = [disk EXCEPT ![k] = [@ EXCEPT
                  !.atime = fileInfo[k].meta_time,
                  !.mtime = fileInfo[k].meta_time,
                  !.btime = IF setsBtime THEN fileInfo[k].meta_time ELSE @,
                  !.ctime = now]]
    /\ writes' = [writes EXCEPT ![k] = @ + 1]
    /\ clock' = now
    /\ result' = [result EXCEPT ![k] = "true"]
    /\ counters' = [counters EXCEPT !.fixedFiles = @ + 1]
    /\ stage' = [stage EXCEPT ![k] = "done"]
    /\ pc' = "loop"
    /\ i' = i + 1
    /\ UNCHANGED <<args, targets, setsBtime, run, fileInfo, out>>

\* lines 333-339 / 364-370: the summary line
Summary ==
  /\ pc = "loop" /\ i > Len(targets)
  /\ out' = Log(out, 0,
                IF args.isFix
                  THEN IF counters.fixedFiles = 0 THEN "no fixable files" ELSE "Modified"
                  ELSE IF counters.fixableFiles = 0 /\ counters.noMetaFiles = 0
                         THEN "no fixable files" ELSE "No-meta")
  /\ pc' = "done"
  /\ UNCHANGED <<args, targets, disk, setsBtime, clock, run, i, stage, fileInfo,
                 result, counters, writes>>

\* the program is run again, with the same arguments, on the same files
Restart ==
  \E now \in Now :
    /\ pc = "done"
    /\ run < MaxRuns
    /\ run' = run + 1
    /\ clock' = now
    /\ pc' = "loop"
    /\ i' = 1
    /\ stage' = [k \in DOMAIN targets |-> "idle"]
    /\ fileInfo' = [k \in DOMAIN targets |-> NoInfo]
    /\ result' = [k \in DOMAIN targets |-> "none"]
    /\ writes' = [k \in DOMAIN targets |-> 0]
    /\ counters' = NoCounters
    /\ out' = Banner
    /\ UNCHANGED <<args, targets, disk, setsBtime>>

Next ==
  \/ LoopStatThrows
  \/ LoopSkip
  \/ LoopCall
  \/ ExtractDone
  \/ DumpReturn
  \/ FixReturnFalse
  \/ FixWrite
  \/ FixThrows
  \/ UtimesDone
  \/ Summary
  \/ Restart

Spec == Init /\ [][Next]_vars

----------------------------------------------------------------------------
(* Properties *)

\* check has returned entry k's FileStat
Checked(k) == stage[k] \in {"checked", "utimes", "done", "failed"}

\* fix or dump has been called on entry k
Called(k) == fileInfo[k].flag # "none"

Logged(k, msg) == \E n \in 1..Len(out) : out[n] = [f |-> k, msg |-> msg]

\* the claims' outOfRange: NOT ignoreDirConstraint AND (no range OR
\* captureTime < range.begin OR captureTime >= range.end)
OutOfRange(r) ==
  /\ ~args.ignoreDir
  /\ \/ ~r.hasRange
     \/ DateLT(r.meta_time, r.begin)
     \/ DateGE(r.meta_time, r.end)

\* C1: fix writes a file's timestamps only when its flag is "fixable", its
\* validDir is true and its meta_time is present; in every other case it makes
\* no timestamp write and returns false.
C1_FixWritesOnlyWhenAllThreeHold ==
  \A k \in DOMAIN targets :
    LET r    == fileInfo[k]
        all3 == r.flag = "fixable" /\ r.validDir /\ r.meta_time # Undefined
    IN  /\ writes[k] > 0 => all3 /\ args.isFix
        /\ args.isFix /\ stage[k] = "done" /\ ~all3
             => result[k] = "false" /\ writes[k] = 0

\* one file corrected and another, fixable but with validDir false, refused
C1_Witness ==
  \E j \in DOMAIN targets : \E k \in DOMAIN targets :
    /\ result[j] = "true" /\ writes[j] = 2
    /\ result[k] = "false"
    /\ fileInfo[k].flag = "fixable" /\ ~fileInfo[k].validDir

\* C2: with ignoreDir false, a range resolved and meta_time present but outside
\* [begin, end), check yields flag "fixable" with validDir false, and the file's
\* timestamps are never written, whatever they are.
C2_OutsideRangeIsFixableButRefused ==
  \A k \in DOMAIN targets :
    LET r == fileInfo[k]
    IN  /\ Checked(k) /\ ~args.ignoreDir /\ r.hasRange /\ IsDate(r.meta_time)
        /\ DateLT(r.meta_time, r.begin) \/ DateGE(r.meta_time, r.end)
        => r.flag = "fixable" /\ ~r.validDir /\ writes[k] = 0

\* fix mode is through with a file whose capture time is the range's end and
\* whose timestamps all equal the capture time
C2_Witness ==
  \E k \in DOMAIN targets :
    LET r == fileInfo[k]
    IN  /\ args.isFix /\ ~args.ignoreDir /\ stage[k] = "done"
        /\ r.hasRange /\ r.meta_time = r.end
        /\ r.ctime = r.meta_time /\ r.mtime = r.meta_time /\ r.btime = r.meta_time
        /\ result[k] = "false" /\ disk[k].mtime = r.mtime

\* C3: a second run of fix mode in succession writes no file's timestamps.
C3_SecondFixRunWritesNothing ==
  args.isFix /\ run >= 2 => \A k \in DOMAIN targets : writes[k] = 0

\* C4: in check and check-nodir modes no step changes any file's on-disk
\* timestamps.
C4_CheckModesNeverWrite ==
  [][args.modeIndex \in {0, 1} => disk' = disk /\ writes' = writes]_vars

\* a check run has ended after reporting a file that fix mode would correct
C4_Witness ==
  /\ args.modeIndex \in {0, 1}
  /\ pc = "done"
  /\ \E k \in DOMAIN targets :
       /\ result[k] = "fixable" /\ fileInfo[k].validDir
       /\ Logged(k, "log")

\* C5 as stated: with meta_time present the flag is "fixable" exactly when
\* outOfRange or one of |ctime - mtime|, |ctime - btime|, |ctime - meta_time|
\* exceeds 10,000 ms, and "normal" otherwise.
C5_ChecksRelativeToChangeTime ==
  \A k \in DOMAIN targets :
    LET r == fileInfo[k]
    IN  Checked(k) /\ r.meta_time # Undefined
        => /\ r.flag \in {"fixable", "normal"}
           /\ r.flag = "fixable" <=>
                \/ OutOfRange(r)
                \/ AbsDiffGT(r.ctime, r.mtime, 10000)
                \/ AbsDiffGT(r.ctime, r.btime, 10000)
                \/ AbsDiffGT(r.ctime, r.meta_time, 10000)

\* C5 amended: with meta_time present the flag is "fixable" exactly when
\* outOfRange or one of |meta_time - ctime|, |meta_time - mtime|,
\* |meta_time - btime| exceeds 10,000 ms (strictly), and "normal" otherwise.
C5_ChecksRelativeToCaptureTime ==
  \A k \in DOMAIN targets :
    LET r == fileInfo[k]
    IN  Checked(k) /\ r.meta_time # Undefined
        => /\ r.flag \in {"fixable", "normal"}
           /\ r.flag = "fixable" <=>
                \/ OutOfRange(r)
                \/ AbsDiffGT(r.meta_time, r.ctime, 10000)
                \/ AbsDiffGT(r.meta_time, r.mtime, 10000)
                \/ AbsDiffGT(r.meta_time, r.btime, 10000)

\* a file whose change time is 10,000 ms after and whose modify time is
\* 10,000 ms before the capture time is "normal"
C5_Witness ==
  \E k \in DOMAIN targets :
    LET r == fileInfo[k]
    IN  /\ Checked(k) /\ IsDate(r.meta_time)
        /\ r.ctime = AddMs(r.meta_time, 10000)
        /\ r.mtime = AddMs(r.meta_time, -10000)
        /\ r.flag = "normal"

\* C6: with meta_time absent, check yields flag "no_meta" whatever the
\* timestamps and the range are, and validDir equals ignoreDir.
C6_NoMetaFlagAndValidDir ==
  \A k \in DOMAIN targets :
    LET r == fileInfo[k]
    IN  Checked(k) /\ r.meta_time = Undefined
        => r.flag = "no_meta" /\ r.validDir = args.ignoreDir

\* a file without capture time under a resolved range, checked in either kind
\* of mode
C6_Witness ==
  \E k \in DOMAIN targets :
    LET r == fileInfo[k]
    IN  /\ Checked(k) /\ r.meta_time = Undefined /\ r.hasRange
        /\ r.flag = "no_meta" /\ ~args.ignoreDir /\ ~r.validDir

\* C7: at most one entry's pipeline is in flight, and no entry's pipeline
\* begins, nor does main's loop reach the entry, before its predecessors' have
\* ended (skipped, or returned after the extraction and, in fix mode, the write).
C7_OneFileAtATime ==
  /\ Cardinality({k \in DOMAIN targets : stage[k] \in {"extract", "checked", "utimes"}}) <= 1
  /\ \A k \in DOMAIN targets :
       k > 1 /\ stage[k] # "idle" => stage[k - 1] \in {"skipped", "done"}
  /\ \A k \in DOMAIN targets : k < i => stage[k] \in {"skipped", "done"}

\* the second file's extraction is pending after the first file was corrected
C7_Witness ==
  /\ Len(targets) >= 2
  /\ stage[1] = "done" /\ writes[1] = 2
  /\ stage[2] = "extract"

\* C8: when a run has ended, every regular non-sidecar file has been processed
\* and the summary line printed: no error met on one file ends the run early.
C8_RunCompletes ==
  pc \in {"done", "crashed"}
    => /\ pc = "done"
       /\ \A k \in DOMAIN targets : stage[k] \in {"skipped", "done"}
       /\ out[Len(out)].f = 0

\* the first of the month after y-m at 00:00 +09:00
NextMonthJst(y, m) == IF m = 12 THEN DateJst(y + 1, 1) ELSE DateJst(y, m + 1)

\* segment p of the path is /<YYYY>/<YYYY>-<MM> with equal years, the year in
\* (1950, 2030] and the month in 1..12
GoodMonthAt(path, p) ==
  /\ MonthMatchAt(path, p)
  /\ path[p].y = path[p + 1].y
  /\ path[p].y > 1950 /\ path[p].y <= 2030
  /\ path[p + 1].m \in 1..12

RangeIs(r, b, e) == r.hasRange /\ r.begin = b /\ r.end = e

\* C9 as stated: any such segment of the path decides the range.
C9_AnySegmentDecides ==
  \A k \in DOMAIN targets :
    \A p \in 1..Len(targets[k].path) :
      Called(k) /\ GoodMonthAt(targets[k].path, p)
        => RangeIs(fileInfo[k],
                   DateJst(targets[k].path[p].y, targets[k].path[p + 1].m),
                   NextMonthJst(targets[k].path[p].y, targets[k].path[p + 1].m))

\* C9 amended: such a segment decides the range when it is the leftmost match
\* of the month pattern in the path.
C9_LeftmostSegmentDecides ==
  \A k \in DOMAIN targets :
    \A p \in 1..Len(targets[k].path) :
      /\ Called(k) /\ GoodMonthAt(targets[k].path, p)
      /\ \A q \in 1..(p - 1) : ~MonthMatchAt(targets[k].path, q)
      => RangeIs(fileInfo[k],
                 DateJst(targets[k].path[p].y, targets[k].path[p + 1].m),
                 NextMonthJst(targets[k].path[p].y, targets[k].path[p + 1].m))

\* a December directory, behind a plain directory
C9_Witness ==
  \E k \in DOMAIN targets :
    /\ Called(k)
    /\ targets[k].path[1] = SegOther
    /\ GoodMonthAt(targets[k].path, 2)
    /\ targets[k].path[3].m = 12
    /\ fileInfo[k].end = DateJst(targets[k].path[2].y + 1, 1)

\* C10: when the two years of the deciding match differ, for the month pattern
\* and for the year pattern alike, an error is logged and there is no range.
C10_YearMismatchGivesNoRange ==
  \A k \in DOMAIN targets :
    LET path == targets[k].path
        mm   == MonthMatcherExec(path)
        ym   == YearMatcherExec(path)
        p    == IF mm # 0 THEN mm ELSE ym
    IN  Called(k) /\ p # 0 /\ path[p].y # path[p + 1].y
        => ~fileInfo[k].hasRange /\ Logged(k, "year_mismatch")

\* C11: every range rangeFromPath returns has begin < end, for the month
\* pattern and for the year pattern with any four-digit year 0000..9999.
C11_RangeBeginBeforeEnd ==
  \A k \in DOMAIN targets :
    Called(k) /\ fileInfo[k].hasRange
      => DateLT(fileInfo[k].begin, fileInfo[k].end)

\* a and b are within the tolerance of each other
Near(a, b) == ~AbsDiffGT(a, b, 10000)

\* meta_time lies in [begin, end)
InRange(r) ==
  /\ r.hasRange
  /\ DateGE(r.meta_time, r.begin)
  /\ DateLT(r.meta_time, r.end)

\* C12: with meta_time present and inside the range, and ctime, mtime and btime
\* all within 10,000 ms of each other and of meta_time, check yields flag
\* "normal", and fix mode then returns false without writing.
C12_ConsistentInsideRangeIsNormal ==
  \A k \in DOMAIN targets :
    LET r == fileInfo[k]
    IN  /\ Checked(k) /\ IsDate(r.meta_time) /\ InRange(r)
        /\ Near(r.meta_time, r.ctime) /\ Near(r.meta_time, r.mtime)
        /\ Near(r.meta_time, r.btime)
        /\ Near(r.ctime, r.mtime) /\ Near(r.ctime, r.btime) /\ Near(r.mtime, r.btime)
        => /\ r.flag = "normal"
           /\ writes[k] = 0
           /\ args.isFix /\ stage[k] = "done" => result[k] = "false"

\* fix mode is through with a file whose capture time is the range's begin and
\* whose change time is 10,000 ms later
C12_Witness ==
  \E k \in DOMAIN targets :
    LET r == fileInfo[k]
    IN  /\ args.modeIndex = 2 /\ stage[k] = "done"
        /\ r.hasRange /\ r.meta_time = r.begin
        /\ r.ctime = AddMs(r.meta_time, 10000)
        /\ r.mtime = r.meta_time /\ r.btime = r.meta_time
        /\ r.flag = "normal" /\ result[k] = "false"
        /\ disk[k].mtime = r.mtime /\ disk[k].ctime = r.ctime

\* C13: with ignoreDir true the range has no influence: validDir is true and
\* the flag is decided by meta_time and the three timestamps alone, so two
\* files with the same timestamps and meta_time get the same flag and validDir
\* whatever their ranges; a file without range whose timestamps are within
\* 10,000 ms of its meta_time is "normal".
C13_NodirIgnoresRange ==
  args.ignoreDir =>
    /\ \A k \in DOMAIN targets :
         LET r == fileInfo[k]
         IN  Checked(k) =>
               /\ r.validDir
               /\ r.flag = IF r.meta_time = Undefined THEN "no_meta"
                           ELSE IF /\ Near(r.meta_time, r.ctime)
                                   /\ Near(r.meta_time, r.mtime)
                                   /\ Near(r.meta_time, r.btime)
                             THEN "normal"
                           ELSE "fixable"
    /\ \A j \in DOMAIN targets : \A k \in DOMAIN targets :
         LET q == fileInfo[j]
             r == fileInfo[k]
         IN  /\ Checked(j) /\ Checked(k)
             /\ q.meta_time = r.meta_time /\ q.ctime = r.ctime
             /\ q.mtime = r.mtime /\ q.btime = r.btime
             => q.flag = r.flag /\ q.validDir = r.validDir

\* a nodir mode has checked a file without range whose timestamps agree with
\* its capture time
C13_Witness ==
  \E k \in DOMAIN targets :
    LET r == fileInfo[k]
    IN  /\ args.ignoreDir /\ Checked(k)
        /\ ~r.hasRange /\ IsDate(r.meta_time)
        /\ r.ctime = AddMs(r.meta_time, 10000) /\ r.mtime = AddMs(r.meta_time, -10000)
        /\ r.flag = "normal" /\ r.validDir

\* C14: in fix mode a file whose flag is "fixable" and whose validDir is false
\* (its meta_time lying outside its range) has, once fix has returned, its
\* diagnostic lines on the console and no timestamp written.
C14_RefusedFileIsReported ==
  \A k \in DOMAIN targets :
    LET r == fileInfo[k]
    IN  /\ args.isFix /\ stage[k] = "done"
        /\ r.flag = "fixable" /\ ~r.validDir /\ r.hasRange
        => /\ Logged(k, "log")
           /\ writes[k] = 0
           /\ disk[k].mtime = r.mtime /\ disk[k].ctime = r.ctime
           /\ disk[k].btime = r.btime

\* the string s is not in the layout "YYYY:MM:DD hh:mm:ss": it lacks the ":"
\* at position 4 or at position 7
Malformed(s) == s.k \in {"nocolon", "badlayout"}

\* the instant a string in the layout spells, read in local time
InstantOf(s) == AddMs(MkDate(s.day, s.ms), -LocalOffsetMs)

\* C15: when the EXIF reader succeeds, CreateDate is absent or malformed and
\* DateTimeOriginal is well formed, check's meta_time is the instant that
\* DateTimeOriginal spells.
C15_SecondaryFieldTried ==
  \A k \in DOMAIN targets :
    LET e == targets[k]
    IN  /\ Checked(k) /\ IsImageExt(e.ext) /\ e.exif.error = "none"
        /\ e.exif.CreateDate.k = "absent" \/ Malformed(e.exif.CreateDate)
        /\ e.exif.DateTimeOriginal.k = "ok"
        /\ InstantOf(e.exif.DateTimeOriginal) # Epoch0
        => fileInfo[k].meta_time = InstantOf(e.exif.DateTimeOriginal)

\* what the extractor of entry e's kind resolves to
Extracted(e) ==
  IF IsImageExt(e.ext) THEN getDateFromExif(e.exif).date
  ELSE IF IsVideoExt(e.ext) THEN getDateByFfmpeg(e.ffmpeg).date
  ELSE Undefined

\* C16: when the image or the video extractor resolves to the zero epoch or to
\* an invalid Date, check's meta_time is undefined and its flag "no_meta", and
\* in no mode is the file's timestamp written.
C16_ZeroAndNaNAreNoMeta ==
  \A k \in DOMAIN targets :
    LET r == fileInfo[k]
    IN  Checked(k) /\ Extracted(targets[k]) \in {Epoch0, InvalidDate}
        => /\ r.meta_time = Undefined
           /\ r.flag = "no_meta"
           /\ writes[k] = 0
           /\ disk[k].mtime = r.mtime /\ disk[k].atime # Epoch0
           /\ disk[k].btime = r.btime

\* fix-nodir is through with a video whose creation_time is 1970-01-01T00:00:00Z
C16_Witness ==
  \E k \in DOMAIN targets :
    /\ args.modeIndex = 3 /\ stage[k] = "done"
    /\ IsVideoExt(targets[k].ext)
    /\ targets[k].ffmpeg = IsoStrOf(Epoch0)
    /\ fileInfo[k].flag = "no_meta" /\ result[k] = "false"

\* C17: with ignoreDir false, a file without range (no pattern matches, or the
\* match is rejected) whose meta_time is present gets flag "fixable" whatever
\* its timestamps, on every run, and validDir false: check mode returns
\* "fixable", fix mode returns false and writes nothing.
C17_NoRangeIsFlaggedNeverFixed ==
  \A k \in DOMAIN targets :
    LET r == fileInfo[k]
    IN  Checked(k) /\ ~args.ignoreDir /\ ~r.hasRange /\ IsDate(r.meta_time)
        => /\ r.flag = "fixable" /\ ~r.validDir
           /\ writes[k] = 0
           /\ disk[k].mtime = r.mtime /\ disk[k].btime = r.btime
           /\ stage[k] = "done"
                => result[k] = IF args.isFix THEN "false" ELSE "fixable"

\* the second run of fix mode is through with a file whose path matches the
\* month pattern with a month that is rejected and whose timestamps all equal
\* its capture time
C17_Witness ==
  \E k \in DOMAIN targets :
    LET r == fileInfo[k]
    IN  /\ args.modeIndex = 2 /\ run = 2 /\ stage[k] = "done"
        /\ rangeFromPath(targets[k].path).err = "invalid_year_month"
        /\ ~r.hasRange /\ IsDate(r.meta_time)
        /\ r.ctime = r.meta_time /\ r.mtime = r.meta_time /\ r.btime = r.meta_time
        /\ r.flag = "fixable" /\ result[k] = "false"

\* C18: flag and validDir never contradict each other: with meta_time present
\* and ignoreDir false, validDir is the negation of the out-of-range check, so
\* flag "normal" comes with validDir true; and what fix writes in fix mode
\* (not fix-nodir) is a meta_time inside [begin, end), written because one of
\* ctime, mtime, btime is more than 10,000 ms from it.
C18_FlagAndValidDirAgree ==
  \A k \in DOMAIN targets :
    LET r == fileInfo[k]
    IN  Checked(k) =>
          /\ ~args.ignoreDir /\ r.meta_time # Undefined
               => r.validDir = ~OutOfRange(r)
          /\ r.flag = "normal" => r.validDir
          /\ writes[k] > 0 /\ ~args.ignoreDir
               => /\ InRange(r)
                  /\ disk[k].mtime = r.meta_time /\ disk[k].atime = r.meta_time
                  /\ disk[k].btime \in {r.btime, r.meta_time}
                  /\ \/ ~Near(r.meta_time, r.ctime)
                     \/ ~Near(r.meta_time, r.mtime)
                     \/ ~Near(r.meta_time, r.btime)

\* fix mode has corrected a file whose capture time is its range's begin and
\* whose creation time alone was 10,001 ms off
C18_Witness ==
  \E k \in DOMAIN targets :
    LET r == fileInfo[k]
    IN  /\ args.modeIndex = 2 /\ result[k] = "true" /\ writes[k] = 2
        /\ r.hasRange /\ r.meta_time = r.begin
        /\ r.ctime = r.meta_time /\ r.mtime = r.meta_time
        /\ r.btime = AddMs(r.meta_time, 10001)
        /\ disk[k].mtime = r.meta_time

====
